---- MODULE Spec2Model ----
(***************************************************************************)
(* CO2 accounting tool: the description matcher (logic.py), the emissions  *)
(* calculator (logic.py), the aggregator (analytics.py), the CSV loader    *)
(* (data_loader.py) and the main flow (main.py).                           *)
(*                                                                         *)
(* Text is a sequence of one-character strings.  A dict is a function      *)
(* whose DOMAIN is its set of keys.  Numbers are the integer-valued floats *)
(* (products of small integers are exact in binary floating point).        *)
(***************************************************************************)
EXTENDS Integers, Sequences, FiniteSets, TLC

\* ------------------------------------------------------------------ text

\* The code points of the characters the model's texts are written in.
Ord(c) ==
    CASE c = " " -> 32
      [] c = "-" -> 45
      [] c = "0" -> 48
      [] c = "2" -> 50
      [] c = "5" -> 53
      [] c = "9" -> 57
      [] c = "A" -> 65
      [] c = "B" -> 66
      [] c = "U" -> 85
      [] c = "a" -> 97
      [] c = "b" -> 98
      [] c = "k" -> 107
      [] c = "n" -> 110
      [] c = "o" -> 111
      [] c = "s" -> 115
      [] c = "u" -> 117
      [] c = "w" -> 119
      [] c = "x" -> 120

IsSpace(c) == c = " "

\* str.lower()
LowerChar(c) ==
    CASE c = "A" -> "a"
      [] c = "B" -> "b"
      [] c = "U" -> "u"
      [] OTHER -> c

Lower(s) == [i \in 1..Len(s) |-> LowerChar(s[i])]

\* str.strip(): drop the leading and the trailing whitespace
RECURSIVE LStrip(_)
LStrip(s) == IF s # <<>> /\ IsSpace(Head(s)) THEN LStrip(Tail(s)) ELSE s

RECURSIVE RStrip(_)
RStrip(s) ==
    IF s # <<>> /\ IsSpace(s[Len(s)]) THEN RStrip(SubSeq(s, 1, Len(s) - 1)) ELSE s

Strip(s) == RStrip(LStrip(s))

\* the normal form of a description and of a category: s.lower().strip()
Normalize(s) == Strip(Lower(s))

\* str.split(): the maximal runs of non-whitespace characters, in order
RECURSIVE SplitFrom(_, _, _)
SplitFrom(s, cur, acc) ==
    IF s = <<>>
    THEN IF cur = <<>> THEN acc ELSE Append(acc, cur)
    ELSE IF IsSpace(Head(s))
         THEN SplitFrom(Tail(s), <<>>, IF cur = <<>> THEN acc ELSE Append(acc, cur))
         ELSE SplitFrom(Tail(s), Append(cur, Head(s)), acc)

Split(s) == SplitFrom(s, <<>>, <<>>)

\* `sub in s`: sub occurs in s as a contiguous substring (the empty text always does)
Contains(s, sub) ==
    \E i \in 0..(Len(s) - Len(sub)) : SubSeq(s, i + 1, i + Len(sub)) = sub

\* s < t in Python's string order (code point by code point, a prefix first)
RECURSIVE StrLess(_, _)
StrLess(s, t) ==
    IF t = <<>> THEN FALSE
    ELSE IF s = <<>> THEN TRUE
    ELSE IF Head(s) # Head(t) THEN Ord(Head(s)) < Ord(Head(t))
    ELSE StrLess(Tail(s), Tail(t))

\* float(text): the value of an optionally signed run of digits, surrounding
\* whitespace ignored; anything else the model's alphabet can spell raises
\* ValueError.  [ok, value]: ok is FALSE when float raises ValueError.
Digits == {"0", "2", "5", "9"}
DigitVal(c) == Ord(c) - Ord("0")
Parsed(n) == [ok |-> TRUE, value |-> n]
ValueError == [ok |-> FALSE, value |-> 0]

RECURSIVE DigitsValue(_, _)
DigitsValue(s, acc) ==
    IF s = <<>> THEN acc ELSE DigitsValue(Tail(s), 10 * acc + DigitVal(Head(s)))

AllDigits(s) == s # <<>> /\ \A i \in 1..Len(s) : s[i] \in Digits

ParseFloat(text) ==
    LET s == Strip(text)
    IN  IF AllDigits(s) THEN Parsed(DigitsValue(s, 0))
        ELSE IF s # <<>> /\ Head(s) = "-" /\ AllDigits(Tail(s))
             THEN Parsed(0 - DigitsValue(Tail(s), 0))
             ELSE ValueError

\* ------------------------------------------------- difflib.SequenceMatcher

\* a[i+1 .. i+k] = b[j+1 .. j+k]
BlockAt(a, b, i, j, k) ==
    /\ i + k <= Len(a)
    /\ j + k <= Len(b)
    /\ SubSeq(a, i + 1, i + k) = SubSeq(b, j + 1, j + k)

\* find_longest_match over the whole of a and b, no junk: the longest common
\* block, of those the one starting earliest in a, of those the one starting
\* earliest in b.  <<i, j, k>>, k = 0 when a and b share no character.
FindLongestMatch(a, b) ==
    LET Blocks == {<<i, j, k>> \in (0..Len(a)) \X (0..Len(b)) \X (0..Len(a)) :
                      BlockAt(a, b, i, j, k)}
        Better(x, y) ==
            \/ x[3] > y[3]
            \/ x[3] = y[3] /\ x[1] < y[1]
            \/ x[3] = y[3] /\ x[1] = y[1] /\ x[2] < y[2]
        best == CHOOSE x \in Blocks : \A y \in Blocks : x = y \/ Better(x, y)
    IN  IF best[3] = 0 THEN <<0, 0, 0>> ELSE best

\* the total size of get_matching_blocks(): the longest block, then the same
\* to its left and to its right
RECURSIVE MatchCount(_, _)
MatchCount(a, b) ==
    IF a = <<>> \/ b = <<>> THEN 0
    ELSE LET m == FindLongestMatch(a, b)
             i == m[1]
             j == m[2]
             k == m[3]
         IN  IF k = 0 THEN 0
             ELSE k + MatchCount(SubSeq(a, 1, i), SubSeq(b, 1, j))
                    + MatchCount(SubSeq(a, i + k + 1, Len(a)),
                                 SubSeq(b, j + k + 1, Len(b)))

\* ratio() >= cutoff, with ratio() = 2.0 * matches / (len(a) + len(b)), and 1.0
\* for two empty texts; the cutoff 0.7 is CutoffNum / CutoffDen.  The quotient
\* of two small integers rounds to the double 0.7 exactly when it equals 7/10,
\* so the comparison of floats is the comparison of fractions.
\* real_quick_ratio() and quick_ratio() are upper bounds of ratio(): the three
\* tests of get_close_matches pass together exactly when this one does.
CutoffNum == 7
CutoffDen == 10

RatioAtLeastCutoff(a, b) ==
    LET length == Len(a) + Len(b)
    IN  IF length = 0 THEN TRUE
        ELSE CutoffDen * 2 * MatchCount(a, b) >= CutoffNum * length

\* ratio(a1, w) < ratio(a2, w), by cross-multiplication (w is never empty)
RatioLess(a1, a2, w) ==
    MatchCount(a1, w) * (Len(a2) + Len(w)) < MatchCount(a2, w) * (Len(a1) + Len(w))

\* difflib.get_close_matches(word, possibilities, n=1, cutoff=0.7): every
\* possibility x is scored SequenceMatcher(a=x, b=word).ratio(); of those at or
\* above the cutoff the largest (score, x) pair is returned, as a list of at
\* most one text.
GetCloseMatches(word, possibilities) ==
    LET result == {x \in {possibilities[i] : i \in 1..Len(possibilities)} :
                      RatioAtLeastCutoff(x, word)}
        Larger(x, y) == RatioLess(y, x, word) \/ (~RatioLess(x, y, word) /\ StrLess(y, x))
    IN  IF result = {} THEN <<>>
        ELSE <<CHOOSE x \in result : \A y \in result : x = y \/ Larger(x, y)>>

\* ------------------------------------------------- logic.get_emission_factor

\* A dict with insertion order: a sequence of <<key, value>> pairs, no key twice.
Keys(map) == [i \in 1..Len(map) |-> map[i][1]]

HasKey(map, key) == \E i \in 1..Len(map) : map[i][1] = key

Lookup(map, key) == map[CHOOSE i \in 1..Len(map) : map[i][1] = key][2]

\* (mutant) the first value written for a key is kept
DictSetKeepFirst(map, key, val) ==
    IF HasKey(map, key) THEN map ELSE Append(map, <<key, val>>)

\* map[key] = val: a known key keeps its place and takes the new value, a new
\* key goes to the end
DictSet(map, key, val) ==
    IF HasKey(map, key)
    THEN [i \in 1..Len(map) |-> IF map[i][1] = key THEN <<key, val>> ELSE map[i]]
    ELSE Append(map, <<key, val>>)

\* one pass of the loop that builds factor_map, [exc, map]: the map after the
\* row, or exc = "KeyError" when the row lacks a field (only ValueError is
\* caught, and the category is read before the factor is parsed)
IndexRow(map, entry) ==
    IF "category" \notin DOMAIN entry \/ "factor_kg_co2_per_unit" \notin DOMAIN entry
    THEN [exc |-> "KeyError", map |-> map]
    ELSE LET key == Normalize(entry["category"])
             val == ParseFloat(entry["factor_kg_co2_per_unit"])
         IN  [exc |-> "none",
              map |-> IF val.ok THEN DictSet(map, key, val.value) ELSE map]

RECURSIVE BuildIndexFrom(_, _)
BuildIndexFrom(map, db) ==
    IF db = <<>> THEN [exc |-> "none", map |-> map]
    ELSE LET next == IndexRow(map, Head(db))
         IN  IF next.exc # "none" THEN next ELSE BuildIndexFrom(next.map, Tail(db))

BuildIndex(factors_db) == BuildIndexFrom(<<>>, factors_db)

\* (mutant) the last key, in the map's order, that occurs in the description
SubstringMatchLast(map, clean_desc) ==
    LET hits == {i \in 1..Len(map) : Contains(clean_desc, map[i][1])}
    IN  IF hits = {} THEN <<>>
        ELSE <<map[CHOOSE i \in hits : \A j \in hits : i >= j][1]>>

\* the substring tier: the first key, in the map's order, that occurs in the
\* normalized description; <<>> when none does, else <<key>>
SubstringMatch(map, clean_desc) ==
    LET hits == {i \in 1..Len(map) : Contains(clean_desc, map[i][1])}
    IN  IF hits = {} THEN <<>>
        ELSE <<map[CHOOSE i \in hits : \A j \in hits : i <= j][1]>>

\* (mutant) the words are tried from the last to the first
FuzzyStepLastWord(map, words) ==
    [matches |-> GetCloseMatches(words[Len(words)], Keys(map)),
     rest |-> SubSeq(words, 1, Len(words) - 1)]

\* one pass of the loop over description_words, [matches, rest]: the close
\* matches of the first word not yet tried, and the words after it
FuzzyStep(map, words) ==
    [matches |-> GetCloseMatches(Head(words), Keys(map)), rest |-> Tail(words)]

\* the fuzzy tier: the words left to right, the first with a close match decides
RECURSIVE FuzzyMatch(_, _)
RECURSIVE FuzzyNext(_, _)
FuzzyNext(map, step) ==
    IF step.matches # <<>> THEN step.matches ELSE FuzzyMatch(map, step.rest)

FuzzyMatch(map, words) ==
    IF words = <<>> THEN <<>> ELSE FuzzyNext(map, FuzzyStep(map, words))

\* the value returned when no tier matches
NoMatchFactor == 0

\* get_emission_factor(item_description, factors_db): what the call does,
\* [exc, factor, tier]; exc is "none" when it returns
Raised(e) == [exc |-> e, factor |-> NoMatchFactor, tier |-> "raised"]
Returned(f, t) == [exc |-> "none", factor |-> f, tier |-> t]

\* lines 44-61 on a built index: the substring tier's key if it has one, else
\* the fuzzy tier's, else the fallback
ReturnOfTiers(map, sub, fuz) ==
    IF sub # <<>> THEN Returned(Lookup(map, sub[1]), "substring")
    ELSE IF fuz # <<>> THEN Returned(Lookup(map, fuz[1]), "fuzzy")
    ELSE Returned(NoMatchFactor, "none")

MatchTiers(map, clean_desc) ==
    ReturnOfTiers(map, SubstringMatch(map, clean_desc),
                  FuzzyMatch(map, Split(clean_desc)))

MatchWithIndex(index, clean_desc) ==
    IF index.exc # "none" THEN Raised(index.exc)
    ELSE MatchTiers(index.map, clean_desc)

GetEmissionFactor(item_description, factors_db) ==
    MatchWithIndex(BuildIndex(factors_db), Normalize(item_description))

\* --------------------------------------- logic.calculate_invoice_emissions

\* The values of an enriched row: the texts the line came with, and the two
\* floats the calculator adds.
Str(s) == [kind |-> "str", text |-> s, num |-> 0]
Float(n) == [kind |-> "float", text |-> <<>>, num |-> n]

Unknown == <<"U", "n", "k", "n", "o", "w", "n">>

\* row.get('item_description', 'Unknown')
DescriptionOf(row) ==
    IF "item_description" \in DOMAIN row THEN row["item_description"] ELSE Unknown

\* (mutant) a missing or unparseable quantity counts as 0
QuantityOfZeroDefault(row) ==
    IF "quantity" \notin DOMAIN row THEN 0
    ELSE LET q == ParseFloat(row["quantity"])
         IN  IF q.ok THEN q.value ELSE 0

\* float(row.get('quantity', 1)), and 1.0 when float raises ValueError
QuantityOf(row) ==
    IF "quantity" \notin DOMAIN row THEN 1
    ELSE LET q == ParseFloat(row["quantity"])
         IN  IF q.ok THEN q.value ELSE 1

\* (mutant) a new row of the known columns only, not a copy of the line
EnrichedRowKnownColumns(row, factor, total_co2) ==
    [f \in (DOMAIN row \cap {"item_description", "quantity"})
              \cup {"matched_factor", "total_line_co2"} |->
        IF f = "matched_factor" THEN Float(factor)
        ELSE IF f = "total_line_co2" THEN Float(total_co2)
        ELSE Str(row[f])]

\* row.copy() with matched_factor and total_line_co2 set
EnrichedRow(row, factor, total_co2) ==
    [f \in DOMAIN row \cup {"matched_factor", "total_line_co2"} |->
        IF f = "matched_factor" THEN Float(factor)
        ELSE IF f = "total_line_co2" THEN Float(total_co2)
        ELSE Str(row[f])]

\* lines 79-84 of one pass of the loop over invoice_data, [exc, row]: the
\* enriched row, unless get_emission_factor raised
RowResult(row, qty, match) ==
    IF match.exc # "none"
    THEN [exc |-> match.exc, row |-> EnrichedRow(row, 0, 0)]
    ELSE [exc |-> "none", row |-> EnrichedRow(row, match.factor, qty * match.factor)]

\* one pass of the loop over invoice_data
ProcessRow(row, factors_db) ==
    RowResult(row, QuantityOf(row), GetEmissionFactor(DescriptionOf(row), factors_db))

\* calculate_invoice_emissions(invoice_data, factors_db): [exc, rows]; an
\* exception of get_emission_factor is not caught, and ends the call
RECURSIVE CalculateFrom(_, _, _)
RECURSIVE CalculateStep(_, _, _, _)
CalculateStep(processed_invoices, r, rest, factors_db) ==
    IF r.exc # "none" THEN [exc |-> r.exc, rows |-> <<>>]
    ELSE CalculateFrom(Append(processed_invoices, r.row), rest, factors_db)

CalculateFrom(processed_invoices, invoice_data, factors_db) ==
    IF invoice_data = <<>> THEN [exc |-> "none", rows |-> processed_invoices]
    ELSE CalculateStep(processed_invoices, ProcessRow(Head(invoice_data), factors_db),
                       Tail(invoice_data), factors_db)

CalculateInvoiceEmissions(invoice_data, factors_db) ==
    CalculateFrom(<<>>, invoice_data, factors_db)

\* the caller's invoice_data after the call: new_row is row.copy(), so the two
\* fields are set on the copy and the caller's rows stay as they were
InvoiceDataAfter(invoice_data, processed_invoices) == invoice_data

\* ------------------------------------------- analytics.generate_text_report

\* highest_val before the first line
InitialHighestVal == -1

\* the running [exc, total_co2, highest_item, highest_val]; highest_item is <<>>
\* for None and <<text>> otherwise
ReportStart ==
    [exc |-> "none", total_co2 |-> 0, highest_item |-> <<>>,
     highest_val |-> InitialHighestVal]

\* one pass of the loop over processed_data; row['item_description'] is read
\* only for a line that exceeds the running maximum
ReportRow(acc, row) ==
    LET co2 == row["total_line_co2"].num
    IN  IF co2 > acc.highest_val
        THEN IF "item_description" \in DOMAIN row
             THEN [exc |-> "none", total_co2 |-> acc.total_co2 + co2,
                   highest_item |-> <<row["item_description"].text>>,
                   highest_val |-> co2]
             ELSE [acc EXCEPT !.exc = "KeyError"]
        ELSE [acc EXCEPT !.total_co2 = acc.total_co2 + co2]

RECURSIVE ReportLoop(_, _)
ReportLoop(acc, processed_data) ==
    IF processed_data = <<>> \/ acc.exc # "none" THEN acc
    ELSE ReportLoop(ReportRow(acc, Head(processed_data)), Tail(processed_data))

\* sum(1 for row in processed_data if row['matched_factor'] == 0)
UnmatchedCount(processed_data) ==
    Cardinality({i \in 1..Len(processed_data) :
                    processed_data[i]["matched_factor"].num = 0})

\* generate_text_report(processed_data): what it computes and prints,
\* [exc, total_co2, highest_item, highest_val, highest_printed, unmatched_count,
\*  warning_printed]; the count is taken after the loop, so not when it raised
ReportOf(acc, n) ==
    [exc |-> acc.exc,
     total_co2 |-> acc.total_co2,
     highest_item |-> acc.highest_item,
     highest_val |-> acc.highest_val,
     highest_printed |-> acc.exc = "none" /\ acc.highest_item \notin {<<>>, <<<<>>>>},
     unmatched_count |-> IF acc.exc = "none" THEN n ELSE 0,
     warning_printed |-> acc.exc = "none" /\ n > 0]

GenerateTextReport(processed_data) ==
    ReportOf(ReportLoop(ReportStart, processed_data), UnmatchedCount(processed_data))

\* ------------------------------------------------ analytics.export_results

\* export_results(processed_data, filename): "no_data" for an empty list;
\* DictWriter takes its fieldnames from the first row and raises ValueError for
\* a row with a field that is none of them (not an IOError, so not caught)
ExportResults(processed_data) ==
    IF processed_data = <<>> THEN "no_data"
    ELSE IF \A i \in 1..Len(processed_data) :
                DOMAIN processed_data[i] \subseteq DOMAIN processed_data[1]
         THEN "written"
         ELSE "ValueError"

\* ------------------------------------------------ data_loader.load_csv_data

\* A file is missing, empty (no header line), undecodable, or a header line
\* with rows.  A row as csv.DictReader yields it: [cells, extra], cells[k] = <<>>
\* for a field the line is too short for (None), <<text>> otherwise; extra when
\* the line has more cells than the header (they come as a list under the key
\* None).
CleanRow(raw) ==
    [k \in {f \in DOMAIN raw.cells : raw.cells[f] # <<>>} |-> Strip(raw.cells[k][1])]

\* load_csv_data(filepath): [exc, data].  Only FileNotFoundError leaves the
\* function; the ValueError for an empty file, a decoding error and the
\* AttributeError of .strip() on a list are caught and give [].
LoadCsvData(file) ==
    IF file.kind = "missing" THEN [exc |-> "FileNotFoundError", data |-> <<>>]
    ELSE IF file.kind \in {"empty", "undecodable"} THEN [exc |-> "none", data |-> <<>>]
    ELSE IF \E i \in 1..Len(file.rows) : file.rows[i].extra
         THEN [exc |-> "none", data |-> <<>>]
         ELSE [exc |-> "none",
               data |-> [i \in 1..Len(file.rows) |-> CleanRow(file.rows[i])]]

\* ------------------------------------------------------------ the state

VARIABLES
    pc,                 \* where the run is
    exit_status,        \* main: -1 while running, else the process's exit status
    factors_file,       \* main: emission_factors.csv as it lies on disk
    invoice_file,       \* main: invoices.csv as it lies on disk
    factors_db,         \* the reference rows (main's, or the argument of a call)
    invoices,           \* the invoice lines (main's, or the argument of a call)
    final_data,         \* the result of calculate_invoice_emissions
    report,             \* the result of generate_text_report
    exported,           \* the result of export_results
    calls,              \* main: the core functions called so far
    item_description,   \* get_emission_factor: the argument
    clean_desc,         \* get_emission_factor: the normalized description
    factor_map,         \* get_emission_factor: the index
    description_words,  \* get_emission_factor: the words not yet tried
    ret                 \* get_emission_factor: what the call did

vars == <<pc, exit_status, factors_file, invoice_file, factors_db, invoices,
          final_data, report, exported, calls, item_description, clean_desc,
          factor_map, description_words, ret>>

mainVars == <<exit_status, factors_file, invoice_file, calls>>
pipeVars == <<final_data, report, exported>>
matchVars == <<item_description, clean_desc, factor_map, description_words, ret>>

\* sequences over S of length at most n
SeqUpTo(S, n) == UNION {[1..k -> S] : k \in 0..n}

\* a dict with the fields whose value is given (<<>> is "no such field")
Dict(fields) == [k \in {f \in DOMAIN fields : fields[f] # <<>>} |-> fields[k][1]]

NoReport == GenerateTextReport(<<>>)
NoResult == [exc |-> "none", rows |-> <<>>]
NoRet == Returned(NoMatchFactor, "pending")

\* --------------------------------------------------------------- bounds

MaxRefRows == 3     \* rows of a reference table handed to get_emission_factor
MaxDbRows == 1      \* rows of a reference table handed to the calculator
MaxLines == 2       \* invoice lines handed to the calculator
MaxFileRows == 2    \* data rows of a CSV file

\* ------------------------------------------- main.main and what it calls

\* (mutant) `and` in place of `or`
InputsInvalidBoth(db, inv) == db = <<>> /\ inv = <<>>

\* `if not factors_db or not invoices`
InputsInvalid(db, inv) == db = <<>> \/ inv = <<>>

\* lines 23-24: load_csv_data(FACTORS_FILE), inside the try block
LoadFactors ==
    /\ pc = "load_factors"
    /\ LET r == LoadCsvData(factors_file)
       IN  IF r.exc # "none"
           THEN /\ pc' = "exited"
                /\ exit_status' = 1
                /\ UNCHANGED factors_db
           ELSE /\ pc' = "load_invoices"
                /\ factors_db' = r.data
                /\ UNCHANGED exit_status
    /\ UNCHANGED <<factors_file, invoice_file, invoices, calls, pipeVars, matchVars>>

\* lines 26-27: load_csv_data(INVOICE_FILE), inside the try block
LoadInvoices ==
    /\ pc = "load_invoices"
    /\ LET r == LoadCsvData(invoice_file)
       IN  IF r.exc # "none"
           THEN /\ pc' = "exited"
                /\ exit_status' = 1
                /\ UNCHANGED invoices
           ELSE /\ pc' = "validate"
                /\ invoices' = r.data
                /\ UNCHANGED exit_status
    /\ UNCHANGED <<factors_file, invoice_file, factors_db, calls, pipeVars, matchVars>>

\* lines 33-35
Validate ==
    /\ pc = "validate"
    /\ IF InputsInvalid(factors_db, invoices)
       THEN pc' = "exited" /\ exit_status' = 1
       ELSE pc' = "calculate" /\ UNCHANGED exit_status
    /\ UNCHANGED <<factors_file, invoice_file, factors_db, invoices, calls,
                   pipeVars, matchVars>>

\* line 39; an exception is not caught: the interpreter prints it and exits 1
Calculate ==
    /\ pc = "calculate"
    /\ final_data' = CalculateInvoiceEmissions(invoices, factors_db)
    /\ invoices' = InvoiceDataAfter(invoices, final_data'.rows)
    /\ IF final_data'.exc # "none"
       THEN pc' = "exited" /\ exit_status' = 1
       ELSE pc' = "report" /\ UNCHANGED exit_status
    /\ calls' = calls \cup {"calculate_invoice_emissions"}
    /\ UNCHANGED <<factors_file, invoice_file, factors_db, report, exported,
                   matchVars>>

\* line 42
Report ==
    /\ pc = "report"
    /\ report' = GenerateTextReport(final_data.rows)
    /\ IF report'.exc # "none"
       THEN pc' = "exited" /\ exit_status' = 1
       ELSE pc' = "export" /\ UNCHANGED exit_status
    /\ calls' = calls \cup {"generate_text_report"}
    /\ UNCHANGED <<factors_file, invoice_file, factors_db, invoices, final_data,
                   exported, matchVars>>

\* lines 45-47
Export ==
    /\ pc = "export"
    /\ exported' = ExportResults(final_data.rows)
    /\ exit_status' = IF exported' = "ValueError" THEN 1 ELSE 0
    /\ pc' = "exited"
    /\ calls' = calls \cup {"export_results"}
    /\ UNCHANGED <<factors_file, invoice_file, factors_db, invoices, final_data,
                   report, matchVars>>

\* -------------------------------------- get_emission_factor, step by step

\* lines 23-39: normalize the description, build the index
MatchBuildIndex ==
    /\ pc = "match_start"
    /\ clean_desc' = Normalize(item_description)
    /\ LET index == BuildIndex(factors_db)
       IN  IF index.exc # "none"
           THEN /\ ret' = Raised(index.exc)
                /\ pc' = "match_done"
                /\ UNCHANGED factor_map
           ELSE /\ factor_map' = index.map
                /\ pc' = "match_substring"
                /\ UNCHANGED ret
    /\ UNCHANGED <<item_description, description_words, factors_db, invoices,
                   mainVars, pipeVars>>

\* lines 44-51: the substring tier, then the split into words
MatchSubstring ==
    /\ pc = "match_substring"
    /\ LET sub == SubstringMatch(factor_map, clean_desc)
       IN  IF sub # <<>>
           THEN /\ ret' = Returned(Lookup(factor_map, sub[1]), "substring")
                /\ pc' = "match_done"
                /\ UNCHANGED description_words
           ELSE /\ description_words' = Split(clean_desc)
                /\ pc' = "match_fuzzy"
                /\ UNCHANGED ret
    /\ UNCHANGED <<item_description, clean_desc, factor_map, factors_db, invoices,
                   mainVars, pipeVars>>

\* lines 53-59: one word of the fuzzy tier
MatchFuzzyWord ==
    /\ pc = "match_fuzzy"
    /\ description_words # <<>>
    /\ LET step == FuzzyStep(factor_map, description_words)
       IN  IF step.matches # <<>>
           THEN /\ ret' = Returned(Lookup(factor_map, step.matches[1]), "fuzzy")
                /\ pc' = "match_done"
                /\ UNCHANGED description_words
           ELSE /\ description_words' = step.rest
                /\ UNCHANGED <<ret, pc>>
    /\ UNCHANGED <<item_description, clean_desc, factor_map, factors_db, invoices,
                   mainVars, pipeVars>>

\* line 61: no word is left
MatchNoMatch ==
    /\ pc = "match_fuzzy"
    /\ description_words = <<>>
    /\ ret' = Returned(NoMatchFactor, "none")
    /\ pc' = "match_done"
    /\ UNCHANGED <<item_description, clean_desc, factor_map, description_words,
                   factors_db, invoices, mainVars, pipeVars>>

\* --------------------------------------------------------------- inputs

\* the categories of the reference rows handed to get_emission_factor
MatchCategories ==
    {<<"a", "b">>, <<" ", "A", "B">>, <<"a", "b", "b">>, <<"a", "a", "b">>,
     <<"b", "b", "b", "b">>, <<>>}

RefRow(c, f) == [category |-> c, factor_kg_co2_per_unit |-> f]

\* every category with the factor "5", two of them with the factor "0" as
\* well, and one with the unparseable factor "x"
MatchRows ==
    {RefRow(c, <<"5">>) : c \in MatchCategories}
    \cup {RefRow(c, <<"0">>) : c \in {<<"a", "b">>, <<"a", "b", "b">>}}
    \cup {RefRow(<<"a", "b">>, <<"x">>)}

\* the descriptions handed to get_emission_factor: "", " ", "Abb", "ab bbb",
\* "bbb ab"
Descriptions ==
    {<<>>, <<" ">>, <<"A", "b", "b">>, <<"a", "b", " ", "b", "b", "b">>,
     <<"b", "b", "b", " ", "a", "b">>}

\* the reference rows handed to the calculator: any of the two fields may be
\* missing
CalcDbRows ==
    {Dict([category |-> c, factor_kg_co2_per_unit |-> f]) :
        c \in {<<>>, <<<<"a", "b">>>>},
        f \in {<<>>, <<<<"0">>>>, <<<<"5">>>>, <<<<"x">>>>}}

\* the invoice lines handed to the calculator: a description that matches, one
\* that does not, or none; a quantity, an unparseable one, or none; and two
\* lines with a further column (sku, and a column named matched_factor)
CalcLines ==
    {Dict([item_description |-> d, quantity |-> q]) :
        d \in {<<>>, <<<<"A", "B">>>>, <<<<"x">>>>},
        q \in {<<>>, <<<<"2">>>>, <<<<"-", "2">>>>, <<<<"x">>>>}}
    \cup {[item_description |-> <<"A", "B">>, quantity |-> <<"2">>, sku |-> <<"s">>],
          [item_description |-> <<"A", "B">>, quantity |-> <<"2">>,
           matched_factor |-> <<"9">>]}

\* the CSV files main may find
RawRow(c, x) == [cells |-> c, extra |-> x]

FactorFileRows ==
    {RawRow([category |-> <<<<" ", "A", "B", " ">>>>,
             factor_kg_co2_per_unit |-> <<<<"5", " ">>>>], FALSE),
     RawRow([category |-> <<<<"a", "b">>>>, factor_kg_co2_per_unit |-> <<<<"0">>>>], FALSE),
     RawRow([category |-> <<<<"a", "b">>>>, factor_kg_co2_per_unit |-> <<>>], FALSE),
     RawRow([category |-> <<<<"a", "b">>>>,
             factor_kg_co2_per_unit |-> <<<<"5">>>>], TRUE)}

InvoiceFileRows ==
    {RawRow([item_description |-> <<<<"a", "b", " ", "x", " ">>>>,
             quantity |-> <<<<" ", "2">>>>], FALSE),
     RawRow([item_description |-> <<<<"x">>>>, quantity |-> <<>>], FALSE),
     RawRow([item_description |-> <<>>, quantity |-> <<<<"2">>>>], FALSE),
     RawRow([item_description |-> <<<<"a", "b">>>>, quantity |-> <<<<"2">>>>], TRUE)}

Files(rows) ==
    {[kind |-> k, rows |-> <<>>] : k \in {"missing", "empty", "undecodable"}}
    \cup {[kind |-> "rows", rows |-> r] : r \in SeqUpTo(rows, MaxFileRows)}

NoFile == [kind |-> "missing", rows |-> <<>>]

\* ------------------------------------------------------- specifications

IdleMain ==
    /\ exit_status = -1
    /\ factors_file = NoFile
    /\ invoice_file = NoFile
    /\ calls = {}

IdlePipe ==
    /\ final_data = NoResult
    /\ report = NoReport
    /\ exported = "none"

IdleMatch ==
    /\ item_description = <<>>
    /\ clean_desc = <<>>
    /\ factor_map = <<>>
    /\ description_words = <<>>
    /\ ret = NoRet

\* a run of main: the two files are what the run finds on disk
Init ==
    /\ pc = "load_factors"
    /\ exit_status = -1
    /\ factors_file \in Files(FactorFileRows)
    /\ invoice_file \in Files(InvoiceFileRows)
    /\ calls = {}
    /\ factors_db = <<>>
    /\ invoices = <<>>
    /\ IdlePipe
    /\ IdleMatch

Next == LoadFactors \/ LoadInvoices \/ Validate \/ Calculate \/ Report \/ Export

Spec == Init /\ [][Next]_vars

\* calculate_invoice_emissions, then generate_text_report on its result, for
\* any reference rows and any invoice lines
InitCalc ==
    /\ pc = "calculate"
    /\ factors_db \in SeqUpTo(CalcDbRows, MaxDbRows)
    /\ invoices \in SeqUpTo(CalcLines, MaxLines)
    /\ IdleMain
    /\ IdlePipe
    /\ IdleMatch

NextCalc == Calculate \/ Report

SpecCalc == InitCalc /\ [][NextCalc]_vars

\* one call of get_emission_factor, for any description and any reference rows
InitMatch ==
    /\ pc = "match_start"
    /\ item_description \in Descriptions
    /\ factors_db \in SeqUpTo(MatchRows, MaxRefRows)
    /\ invoices = <<>>
    /\ clean_desc = <<>>
    /\ factor_map = <<>>
    /\ description_words = <<>>
    /\ ret = NoRet
    /\ IdleMain
    /\ IdlePipe

NextMatch == MatchBuildIndex \/ MatchSubstring \/ MatchFuzzyWord \/ MatchNoMatch

SpecMatch == InitMatch /\ [][NextMatch]_vars

\* ================================================================= claims

\* What the claims speak of, said of the reference rows themselves.

\* the rows whose factor parses as a number
NumericRows(db) ==
    {i \in 1..Len(db) :
        /\ {"category", "factor_kg_co2_per_unit"} \subseteq DOMAIN db[i]
        /\ ParseFloat(db[i]["factor_kg_co2_per_unit"]).ok}

KeyOfRow(db, i) == Normalize(db[i]["category"])

NormalizedCategories(db) == {KeyOfRow(db, i) : i \in NumericRows(db)}

\* the rows that insert a key for the first time, and a key's last row
FirstRows(db) ==
    {i \in NumericRows(db) :
        \A j \in NumericRows(db) : j < i => KeyOfRow(db, j) # KeyOfRow(db, i)}

LastRowOf(db, key) ==
    CHOOSE i \in NumericRows(db) :
        /\ KeyOfRow(db, i) = key
        /\ \A j \in NumericRows(db) : KeyOfRow(db, j) = key => j <= i

LastFactorOf(db, key) == ParseFloat(db[LastRowOf(db, key)]["factor_kg_co2_per_unit"]).value

Least(S) == CHOOSE i \in S : \A j \in S : i <= j

\* the first-inserted rows whose key occurs in the normalized description
SubstringRows(db, description) ==
    {i \in FirstRows(db) : Contains(Normalize(description), KeyOfRow(db, i))}

\* ratio(k1, w1) < ratio(k2, w2)
ScoreLess(k1, w1, k2, w2) ==
    MatchCount(k1, w1) * (Len(k2) + Len(w2)) < MatchCount(k2, w2) * (Len(k1) + Len(w1))

\* the categories at or above the cutoff for a word, and the top-ranked of them
\* (the highest ratio; of equal ratios the greater text)
Qualifying(db, word) == {k \in NormalizedCategories(db) : RatioAtLeastCutoff(k, word)}

TopRanked(db, word) ==
    CHOOSE k \in Qualifying(db, word) :
        \A k2 \in Qualifying(db, word) \ {k} :
            \/ ScoreLess(k2, word, k, word)
            \/ ~ScoreLess(k, word, k2, word) /\ StrLess(k2, k)

WordsOf(description) == Split(Normalize(description))

\* the words of the description that have a qualifying category
QualifyingWords(db, description) ==
    {w \in 1..Len(WordsOf(description)) : Qualifying(db, WordsOf(description)[w]) # {}}

FirstQualifyingWord(db, description) ==
    WordsOf(description)[Least(QualifyingWords(db, description))]

MatchReturned == pc = "match_done" /\ ret.exc = "none"

\* C1: when an index key occurs in the normalized description,
\* get_emission_factor returns the factor of the first such key in the order of
\* first insertion (with the value of the key's last numeric row), and the fuzzy
\* tier is never entered.
C1_SubstringTierFirstKeyWins ==
    SubstringRows(factors_db, item_description) # {} =>
        /\ pc # "match_fuzzy"
        /\ MatchReturned =>
            /\ ret.tier = "substring"
            /\ ret.factor =
                 LastFactorOf(factors_db,
                     KeyOfRow(factors_db, Least(SubstringRows(factors_db, item_description))))

\* C1's case: two keys with different factors occur in the description, and a
\* word of it has a close match among the keys that is not the key returned
C1_Witness ==
    /\ MatchReturned
    /\ \E i, j \in SubstringRows(factors_db, item_description) :
          LastFactorOf(factors_db, KeyOfRow(factors_db, i))
              # LastFactorOf(factors_db, KeyOfRow(factors_db, j))
    /\ \E w \in QualifyingWords(factors_db, item_description) :
          LastFactorOf(factors_db, TopRanked(factors_db, WordsOf(item_description)[w]))
              # ret.factor

IndexBuilt == pc \in {"match_substring", "match_fuzzy"} \/ MatchReturned

NumericOnly(db) == SelectSeq(db, LAMBDA e : ParseFloat(e["factor_kg_co2_per_unit"]).ok)

\* C3: the index has exactly one entry per distinct normalized category among
\* the rows with a numeric factor, each with the factor of the last such row of
\* that key, and the rows with a non-numeric factor change nothing: the index is
\* the one built from the numeric rows alone.
C3_IndexLastWriteWins ==
    IndexBuilt =>
        /\ {factor_map[p][1] : p \in 1..Len(factor_map)} = NormalizedCategories(factors_db)
        /\ Len(factor_map) = Cardinality(NormalizedCategories(factors_db))
        /\ \A p \in 1..Len(factor_map) :
              factor_map[p][2] = LastFactorOf(factors_db, factor_map[p][1])
        /\ factor_map = BuildIndex(NumericOnly(factors_db)).map

\* C3's case: two numeric rows, written differently, normalize to one key and
\* differ in their factor, and a non-numeric row names a key of the index
C3_Witness ==
    /\ IndexBuilt
    /\ \E i, j \in NumericRows(factors_db) :
          /\ i < j
          /\ factors_db[i]["category"] # factors_db[j]["category"]
          /\ KeyOfRow(factors_db, i) = KeyOfRow(factors_db, j)
          /\ factors_db[i]["factor_kg_co2_per_unit"] # factors_db[j]["factor_kg_co2_per_unit"]
    /\ \E i \in (1..Len(factors_db)) \ NumericRows(factors_db) :
          KeyOfRow(factors_db, i) \in NormalizedCategories(factors_db)

\* C9 (as stated): for an empty or whitespace-only description
\* get_emission_factor returns 0.0, whatever the reference table.
C9_EmptyDescriptionNoMatch ==
    MatchReturned /\ Normalize(item_description) = <<>> => ret.factor = NoMatchFactor

\* ------------------------------------------- the calculator's claims

CalcReturned == "calculate_invoice_emissions" \in calls /\ final_data.exc = "none"

Computed == {"matched_factor", "total_line_co2"}

\* the output has a record per line, in the input's order, with the two
\* computed fields, matched_factor being the line's resolved factor
SameLengthAndOrder ==
    /\ Len(final_data.rows) = Len(invoices)
    /\ \A i \in 1..Len(invoices) :
          /\ DOMAIN final_data.rows[i] = DOMAIN invoices[i] \cup Computed
          /\ final_data.rows[i]["matched_factor"] =
               Float(GetEmissionFactor(DescriptionOf(invoices[i]), factors_db).factor)
          /\ final_data.rows[i]["total_line_co2"].kind = "float"

\* the i-th record carries the fields F of the i-th line with their values
Carries(F(_)) ==
    \A i \in 1..Len(invoices) :
        \A f \in F(invoices[i]) : final_data.rows[i][f] = Str(invoices[i][f])

AllFields(line) == DOMAIN line
OtherFields(line) == DOMAIN line \ Computed

C5_CalculatorNeverRaises ==
    "calculate_invoice_emissions" \in calls =>
        final_data.exc = "none" /\ Len(final_data.rows) = Len(invoices)

\* the quantity of a line: its quantity field as a number, 1.0 when the field
\* is missing or does not parse
HasQuantity(line) == "quantity" \in DOMAIN line /\ ParseFloat(line["quantity"]).ok

QuantityOrOne(line) ==
    IF HasQuantity(line) THEN ParseFloat(line["quantity"]).value ELSE 1

\* C8: total_line_co2 = quantity x matched_factor, the quantity being 1.0 when
\* the field is missing or unparseable (then total_line_co2 = matched_factor),
\* and such a line is still emitted.
C8_TotalIsQuantityTimesFactor ==
    CalcReturned =>
        /\ Len(final_data.rows) = Len(invoices)
        /\ \A i \in 1..Len(invoices) :
              /\ final_data.rows[i]["total_line_co2"].num =
                   QuantityOrOne(invoices[i]) * final_data.rows[i]["matched_factor"].num
              /\ ~HasQuantity(invoices[i]) =>
                   final_data.rows[i]["total_line_co2"].num =
                     final_data.rows[i]["matched_factor"].num

\* C8's case: a matched line whose quantity does not parse or is missing, and
\* a matched line with a quantity other than 1
C8_Witness ==
    /\ CalcReturned
    /\ \E i, j \in 1..Len(invoices) :
          /\ ~HasQuantity(invoices[i])
          /\ final_data.rows[i]["matched_factor"].num # 0
          /\ HasQuantity(invoices[j])
          /\ QuantityOrOne(invoices[j]) # 1
          /\ final_data.rows[j]["matched_factor"].num # 0

\* ------------------------------------------- the aggregator's claims

ReportReturned == "generate_text_report" \in calls /\ report.exc = "none"

LineCo2(i) == final_data.rows[i]["total_line_co2"].num

MaxLine(i) == \A j \in 1..Len(final_data.rows) : LineCo2(j) <= LineCo2(i)

EarliestMaxLine == Least({i \in 1..Len(final_data.rows) : MaxLine(i)})

\* C6 (as stated): for a non-empty sequence, highest_item is the
\* item_description of the earliest line with the maximal total_line_co2 and
\* the highest value is that maximum; highest_item is absent only for the empty
\* sequence.
C6_HighestIsEarliestMaximum ==
    ReportReturned =>
        IF final_data.rows = <<>> THEN report.highest_item = <<>>
        ELSE /\ report.highest_val = LineCo2(EarliestMaxLine)
             /\ "item_description" \in DOMAIN final_data.rows[EarliestMaxLine]
             /\ report.highest_item =
                  <<final_data.rows[EarliestMaxLine]["item_description"].text>>

\* no tier has a match for the description
NoMatchAtAnyTier(db, description) ==
    /\ SubstringRows(db, description) = {}
    /\ QualifyingWords(db, description) = {}

\* C7 (as stated): unmatched_count is the number of lines whose matched_factor
\* is 0.0, and that is the number of lines that matched at no tier.
C7_UnmatchedCountIsNoMatchCount ==
    ReportReturned =>
        /\ report.unmatched_count =
             Cardinality({i \in 1..Len(final_data.rows) :
                             final_data.rows[i]["matched_factor"].num = 0})
        /\ report.unmatched_count =
             Cardinality({i \in 1..Len(invoices) :
                             NoMatchAtAnyTier(factors_db, DescriptionOf(invoices[i]))})

\* ------------------------------------------------------- main's claim

\* missing, empty, undecodable, or a header line and nothing else
BadFile(file) == file.kind # "rows" \/ file.rows = <<>>

\* C10: the calculation, the report and the export run only after both tables
\* were loaded with at least one row each; with a bad file the run calls none
\* of them, goes on until it exits, and exits with status 1.
C10_CoreRunsOnlyOnLoadedTables ==
    /\ calls # {} =>
          /\ pc \in {"report", "export", "exited"}
          /\ factors_db # <<>> /\ factors_db = LoadCsvData(factors_file).data
          /\ invoices # <<>> /\ invoices = LoadCsvData(invoice_file).data
    /\ BadFile(factors_file) \/ BadFile(invoice_file) =>
          /\ calls = {}
          /\ pc = "exited" => exit_status = 1
          /\ pc # "exited" => ENABLED Next

\* C10's case: the reference table has rows, the invoice file has a header
\* line only, and the run has ended
C10_Witness ==
    /\ pc = "exited"
    /\ exit_status = 1
    /\ calls = {}
    /\ ~BadFile(factors_file)
    /\ factors_db # <<>>
    /\ invoice_file.kind = "rows"
    /\ invoice_file.rows = <<>>

====
